---- MODULE Spec2Model ----
(***************************************************************************)
(* Model of the real-estate harvesting and analysis pipeline:              *)
(*   src/src/data_analyzer.py   ImovelAnalyzer (load, clean, combine,      *)
(*                              statistics)                                *)
(*   src/src/leilao_scraper.py  LeilaoScraper  (auction harvester)         *)
(*   src/src/vivareal_scraper.py VivaRealScraper (market harvester)        *)
(*                                                                         *)
(* A pandas DataFrame is a record [columns, rows]: the set of column       *)
(* names and the sequence of rows.  A row is a record with one field per   *)
(* modelled column; a field of a column the frame does not have holds the  *)
(* missing value.  A numeric cell is a record [k, v]:                      *)
(*   k = "nan"  missing (None / NaN)                                       *)
(*   k = "num"  the number v                                               *)
(*   k = "str"  a text that parses as the number v (a CSV/JSON string)     *)
(*   k = "bad"  a text that does not parse as a number                     *)
(* A text cell is a record [isna, s], s a sequence of characters.          *)
(* An optional object (self.df_leiloes is None) is <<>> or <<x>>.          *)
(*                                                                         *)
(* Prices are multiples of every area of the input sets, so preco / area   *)
(* is an exact integer.  An area of 0 is left out of the input sets: the   *)
(* quotient is then an IEEE infinity, and what numpy's interpolated        *)
(* percentile makes of it depends on the dataset size and numpy version.   *)
(***************************************************************************)
EXTENDS Integers, Sequences, FiniteSets, TLC

VARIABLES
  df_leiloes,      \* ImovelAnalyzer.df_leiloes      (<<>> is None)
  df_tradicional,  \* ImovelAnalyzer.df_tradicional  (<<>> is None)
  df_combined,     \* ImovelAnalyzer.df_combined     (<<>> is None)
  stats,           \* what the last generate_statistics call returned (<<>> is None)
  n_clean,         \* number of clean_data calls made on this analyzer
  last,            \* observation of the last clean_data call: its input frames,
                   \* the frames before outlier rejection, the exception logged,
                   \* and how many times each frame has been cleaned so far
  h_pc,            \* harvester: position in scrape_leiloes / scrape_mercado_tradicional
  h_source,        \* harvester: "leilao" or "vivareal"
  h_cap,           \* harvester: max_imoveis of the current run
  h_page,          \* harvester: next index page to request
  h_search,        \* harvester: number of the (cidade, tipo) search in progress
  h_urls,          \* harvester: urls, the list get_imoveis_urls / search_imoveis builds
  h_all,           \* harvester: the list the extraction loop walks (urls / all_urls)
  h_i,             \* harvester: loop index into h_all
  h_data,          \* harvester: self.data, the collected records
  h_log,           \* harvester: listing URLs requested in the current run, in order
  h_ok,            \* harvester: listing URLs of this run whose fetch and extraction succeeded
  h_found,         \* harvester: number of URLs discovery returned
  h_saved,         \* harvester: the records save_data wrote to the file (<<>> is no file)
  h_last,          \* network: the last request made, and what it came to
  h_slept,         \* network: time.sleep has run since the last request
  h_dry,           \* harvester: a page of the search in progress was fetched and
                   \* added no URL to urls
  h_twin,          \* the list a second run over the same pages walks
  x_pc,            \* extractor: "idle", "doc" (a page is parsed), "done"
  x_field,         \* extractor: the harvester class and the record key being filled
  x_doc,           \* extractor: the elements the field's selectors select, one per
                   \* selector (<<>> is no element, <<text>> an element with that text)
  x_value          \* extractor: the value of the key in the record (<<>> is None)

avars == <<df_leiloes, df_tradicional, df_combined, stats, n_clean, last>>
hvars == <<h_pc, h_source, h_cap, h_page, h_search, h_urls, h_all, h_i, h_data, h_log, h_ok,
          h_found, h_saved, h_last, h_slept, h_dry, h_twin>>
xvars == <<x_pc, x_field, x_doc, x_value>>
vars == <<avars, hvars, xvars>>

\* ---------------------------------------------------------------- bounds
MaxRows == 3      \* rows of a loaded file
MaxPriceRows == 4 \* rows of a loaded file of prices and areas only
MaxPasses == 2    \* clean_data calls on one analyzer
MaxPages == 2     \* max_pages: index pages per search
MaxSearches == 2  \* (cidade, tipo) combinations of a market run
MaxUrl == 2       \* distinct listing pages the index pages link to
MaxLinks == 1     \* links on one index page
MaxCap == 2       \* largest max_imoveis; the smallest is -1
MaxPairRows == 2  \* rows of each file when both files are loaded
MaxChain == 2     \* selectors of a chain that select an element of a page

\* ---------------------------------------------------------------- values
None == <<>>
Some(x) == <<x>>

NaN == [k |-> "nan", v |-> 0]
Num(n) == [k |-> "num", v |-> n]
Txt(n) == [k |-> "str", v |-> n]
Bad == [k |-> "bad", v |-> 0]
isna(c) == c.k = "nan"

NaS == [isna |-> TRUE, s |-> <<>>]
Str(s) == [isna |-> FALSE, s |-> s]

s_apartamento == <<"a","p","a","r","t","a","m","e","n","t","o">>
s_casa == <<"c","a","s","a">>
s_comercial == <<"c","o","m","e","r","c","i","a","l">>
s_terreno == <<"t","e","r","r","e","n","o">>
s_unknown == <<"u","n","k","n","o","w","n">>
s_sobrado == <<"s","o","b","r","a","d","o">>
s_Casa_padded == <<" ","C","a","s","a"," ">>

\* str.lower() on one character of the modelled alphabet
lower_char(c) ==
  CASE c = "A" -> "a"
    [] c = "C" -> "c"
    [] c = "S" -> "s"
    [] OTHER -> c

\* Series.str.lower()
str_lower(s) == [i \in DOMAIN s |-> lower_char(s[i])]

RECURSIVE lstrip(_)
lstrip(s) == IF s # <<>> /\ Head(s) = " " THEN lstrip(Tail(s)) ELSE s

RECURSIVE rstrip(_)
rstrip(s) == IF s # <<>> /\ s[Len(s)] = " " THEN rstrip(SubSeq(s, 1, Len(s) - 1)) ELSE s

\* Series.str.strip()
str_strip(s) == rstrip(lstrip(s))

\* the dict handed to Series.replace at data_analyzer.py:118-123
tipo_table == [key \in {s_apartamento, s_casa, s_comercial, s_terreno} |-> key]

\* Series.replace(dict): a value that is a key is replaced, any other is kept
replace(s) == IF s \in DOMAIN tipo_table THEN tipo_table[s] ELSE s

\* pd.to_numeric(..., errors='coerce') on one cell
to_numeric(c) ==
  CASE c.k = "num" -> c
    [] c.k = "str" -> Num(c.v)
    [] OTHER -> NaN

abs(n) == IF n < 0 THEN -n ELSE n

\* float division of two cells (NaN propagates); exact on the input sets
divide(p, a) ==
  IF isna(p) \/ isna(a) THEN NaN
  ELSE Num((IF (p.v < 0) = (a.v < 0) THEN 1 ELSE -1) * (abs(p.v) \div abs(a.v)))

\* ---------------------------------------------------------------- frames
EmptyRow ==
  [idx |-> 0, preco_inicial |-> NaN, preco_atual |-> NaN, preco |-> NaN,
   area |-> NaN, preco_m2 |-> NaN, tipo_imovel |-> NaS, fonte |-> ""]

Frame(cols, rows) == [columns |-> cols, rows |-> rows]

\* the values of columns preco_m2 that are not missing, as a sequence
RECURSIVE dropna_m2(_)
dropna_m2(rows) ==
  IF rows = <<>> THEN <<>>
  ELSE IF isna(Head(rows).preco_m2) THEN dropna_m2(Tail(rows))
  ELSE <<Head(rows).preco_m2.v>> \o dropna_m2(Tail(rows))

\* quantile with interpolation='lower': no interpolation between neighbours
quantile_lower(rows, q) ==
  LET xs == SortSeq(dropna_m2(rows), LAMBDA a, b: a < b)
      n == Len(xs)
  IN IF n = 0 THEN None ELSE Some(100 * xs[((q * (n - 1)) \div 100) + 1])

\* Series.quantile(q / 100), pandas' default linear interpolation over the
\* non-missing values; the result is 100 times the quantile (None: NaN)
Q_LOW == 1
Q_HIGH == 99
quantile(rows, q) ==
  LET xs == SortSeq(dropna_m2(rows), LAMBDA a, b: a < b)
      n == Len(xs)
      pos == q * (n - 1)
      lo == (pos \div 100) + 1
      hi == IF lo < n THEN lo + 1 ELSE lo
      frac == pos % 100
  IN IF n = 0 THEN None
     ELSE Some(100 * xs[lo] + (xs[hi] - xs[lo]) * frac)

\* data_analyzer.py:94-97  df_clean['preco'] = df_clean.get('preco_atual', df_clean.get('preco_inicial'))
standardize_preco(df, fonte) ==
  IF fonte # "leilao" THEN df
  ELSE LET col(r) == IF "preco_atual" \in df.columns THEN r.preco_atual
                     ELSE IF "preco_inicial" \in df.columns THEN r.preco_inicial
                     ELSE NaN
       IN Frame(df.columns \cup {"preco"},
                [i \in DOMAIN df.rows |-> [df.rows[i] EXCEPT !.preco = col(df.rows[i])]])

\* data_analyzer.py:99-103  the numeric columns are coerced when present
coerce_numeric(df) ==
  Frame(df.columns,
        [i \in DOMAIN df.rows |->
           [df.rows[i] EXCEPT
              !.preco = IF "preco" \in df.columns THEN to_numeric(@) ELSE @,
              !.area = IF "area" \in df.columns THEN to_numeric(@) ELSE @]])

\* data_analyzer.py:106  'preco_m2' not in columns or the column is all missing
needs_preco_m2(df) ==
  \/ "preco_m2" \notin df.columns
  \/ \A i \in DOMAIN df.rows : isna(df.rows[i].preco_m2)

\* data_analyzer.py:105-107  the whole column is computed, or none of it
derive_preco_m2(df) ==
  IF needs_preco_m2(df)
  THEN Frame(df.columns \cup {"preco_m2"},
             [i \in DOMAIN df.rows |->
                [df.rows[i] EXCEPT !.preco_m2 = divide(df.rows[i].preco, df.rows[i].area)]])
  ELSE df

\* the row mask with strict comparisons
in_bounds_strict(r, Q1, Q3) ==
  /\ ~isna(r.preco_m2)
  /\ Q1 # None
  /\ Q3 # None
  /\ 100 * r.preco_m2.v > Q1[1]
  /\ 100 * r.preco_m2.v < Q3[1]

\* data_analyzer.py:113  the row mask (preco_m2 >= Q1) & (preco_m2 <= Q3)
in_bounds(r, Q1, Q3) ==
  /\ ~isna(r.preco_m2)
  /\ Q1 # None
  /\ Q3 # None
  /\ 100 * r.preco_m2.v >= Q1[1]
  /\ 100 * r.preco_m2.v <= Q3[1]

\* data_analyzer.py:109-113
reject_outliers(df) ==
  IF "preco_m2" \in df.columns
  THEN LET Q1 == quantile(df.rows, Q_LOW)
           Q3 == quantile(df.rows, Q_HIGH)
       IN Frame(df.columns, SelectSeq(df.rows, LAMBDA r: in_bounds(r, Q1, Q3)))
  ELSE df

\* data_analyzer.py:117-123 on one cell: lower, strip, replace; missing stays missing
canonical_tipo(t) == IF t.isna THEN t ELSE Str(replace(str_strip(str_lower(t.s))))

\* data_analyzer.py:115-123
standardize_tipo(df) ==
  IF "tipo_imovel" \in df.columns
  THEN Frame(df.columns,
             [i \in DOMAIN df.rows |->
                [df.rows[i] EXCEPT !.tipo_imovel = canonical_tipo(@)]])
  ELSE df

\* the frame _clean_dataframe holds when it reaches line 109
pre_rejection(df, fonte) == derive_preco_m2(coerce_numeric(standardize_preco(df, fonte)))

\* the exception _clean_dataframe raises, "" when it raises none: line 107
\* reads df_clean['preco'] and df_clean['area']
clean_raises(df, fonte) ==
  LET c == coerce_numeric(standardize_preco(df, fonte))
  IN IF needs_preco_m2(c) /\ ({"preco", "area"} \ c.columns # {}) THEN "KeyError" ELSE ""

\* data_analyzer.py:90-125
clean_dataframe(df, fonte) == standardize_tipo(reject_outliers(pre_rejection(df, fonte)))

\* ---------------------------------------------------------------- statistics
RECURSIVE sum_seq(_)
sum_seq(xs) == IF xs = <<>> THEN 0 ELSE Head(xs) + sum_seq(Tail(xs))

\* the non-missing values of one column of the rows, as a sequence
RECURSIVE dropna(_, _)
dropna(rows, col) ==
  IF rows = <<>> THEN <<>>
  ELSE LET c == IF col = "preco" THEN Head(rows).preco
                ELSE IF col = "area" THEN Head(rows).area
                ELSE Head(rows).preco_m2
       IN IF isna(c) THEN dropna(Tail(rows), col) ELSE <<c.v>> \o dropna(Tail(rows), col)

\* Series.mean(): the sum and the count of the non-missing values; n = 0 is NaN
mean(rows, col) == LET xs == dropna(rows, col) IN [sum |-> sum_seq(xs), n |-> Len(xs)]

\* Series.median() times 2 over the non-missing values; None is NaN
median2(rows, col) ==
  LET xs == SortSeq(dropna(rows, col), LAMBDA a, b: a < b)
      n == Len(xs)
  IN IF n = 0 THEN None
     ELSE IF n % 2 = 1 THEN Some(2 * xs[(n + 1) \div 2])
     ELSE Some(xs[n \div 2] + xs[(n \div 2) + 1])

\* data_analyzer.py:154-161  stats[fonte]
fonte_stats(rows) ==
  [total_imoveis |-> Len(rows),
   preco_medio |-> mean(rows, "preco"),
   preco_mediano |-> median2(rows, "preco"),
   preco_m2_medio |-> mean(rows, "preco_m2"),
   preco_m2_mediano |-> median2(rows, "preco_m2"),
   area_media |-> mean(rows, "area")]

\* ((t - l) / l) * 100: the difference taken relative to the auction mean
diferenca_over_leilao(t, l) ==
  IF t.n = 0 \/ l.n = 0 THEN [num |-> 0, den |-> 0]
  ELSE [num |-> (t.sum * l.n - l.sum * t.n) * 100, den |-> l.sum * t.n]

\* ((t - l) / t) * 100 of two means, as the fraction [num, den]; den = 0 is
\* the NaN or infinity that float division returns
diferenca(t, l) ==
  IF t.n = 0 \/ l.n = 0 THEN [num |-> 0, den |-> 0]
  ELSE [num |-> (t.sum * l.n - l.sum * t.n) * 100, den |-> t.sum * l.n]

\* the stats dict with a comparison section whatever keys it holds
statistics_always_compared(df) ==
  LET sl == fonte_stats(SelectSeq(df.rows, LAMBDA r: r.fonte = "leilao"))
      st == fonte_stats(SelectSeq(df.rows, LAMBDA r: r.fonte = "tradicional"))
  IN [leilao |-> IF sl.total_imoveis > 0 THEN Some(sl) ELSE None,
      tradicional |-> IF st.total_imoveis > 0 THEN Some(st) ELSE None,
      comparacao |->
        Some([diferenca_preco_medio |-> diferenca(st.preco_medio, sl.preco_medio),
              diferenca_preco_m2_medio |-> diferenca(st.preco_m2_medio, sl.preco_m2_medio)])]

\* data_analyzer.py:148-168  the stats dict; an absent key is None
statistics(df) ==
  LET of(f) == SelectSeq(df.rows, LAMBDA r: r.fonte = f)
      has(f) == of(f) # <<>>
      both == has("leilao") /\ has("tradicional")
      sl == fonte_stats(of("leilao"))
      st == fonte_stats(of("tradicional"))
  IN [leilao |-> IF has("leilao") THEN Some(sl) ELSE None,
      tradicional |-> IF has("tradicional") THEN Some(st) ELSE None,
      comparacao |->
        IF both
        THEN Some([diferenca_preco_medio |-> diferenca(st.preco_medio, sl.preco_medio),
                   diferenca_preco_m2_medio |-> diferenca(st.preco_m2_medio, sl.preco_m2_medio)])
        ELSE None]

\* ---------------------------------------------------------------- input files
\* what pd.DataFrame(json) / pd.read_csv yields for a file of the given
\* columns and rows; idx is the RangeIndex
file_frame(cols, rows) == Frame(cols, [i \in DOMAIN rows |-> [rows[i] EXCEPT !.idx = i - 1]])

SeqsUpTo(S, n) == UNION {[1..k -> S] : k \in 0..n}

\* records as LeilaoScraper.extract_imovel_data builds them (leilao_scraper.py:112-124)
LeilaoCols == {"preco_inicial", "preco_atual", "area", "tipo_imovel"}
LeilaoRows ==
  {[EmptyRow EXCEPT !.preco_inicial = pi, !.preco_atual = pa, !.area = a,
                    !.tipo_imovel = Str(s_casa)] :
     pi \in {NaN, Num(2)}, pa \in {NaN, Num(4)}, a \in {NaN, Num(2)}}

\* an auction file that has no preco_atual column
InicialCols == {"preco_inicial", "area", "tipo_imovel"}
InicialRows ==
  {[EmptyRow EXCEPT !.preco_inicial = pi, !.area = Num(1), !.tipo_imovel = Str(s_casa)] :
     pi \in {NaN, Num(2), Num(4)}}

\* Python truthiness of an extracted number: None and 0.0 are falsy
truthy(c) == ~isna(c) /\ c.v # 0

\* vivareal_scraper.py:129-136  'preco_m2': None, then preco / area if both are truthy
vivareal_preco_m2(p, a) == IF truthy(p) /\ truthy(a) THEN divide(p, a) ELSE NaN

\* records as VivaRealScraper.extract_imovel_data builds them (vivareal_scraper.py:115-136)
VivaRealCols == {"preco", "area", "preco_m2", "tipo_imovel"}
VivaRealRows ==
  {[EmptyRow EXCEPT !.preco = p, !.area = a, !.preco_m2 = vivareal_preco_m2(p, a),
                    !.tipo_imovel = Str(s_apartamento)] :
     p \in {NaN, Num(0), Num(4)}, a \in {NaN, Num(1), Num(2)}}

\* a market file without a preco_m2 column, with texts in the price column
\* and free-form property types
PlainCols == {"preco", "area", "tipo_imovel"}
PlainRows ==
  {[EmptyRow EXCEPT !.preco = p, !.area = Num(1), !.tipo_imovel = t] :
     p \in {Txt(4), Bad},
     t \in {NaS, Str(s_apartamento), Str(s_Casa_padded), Str(s_sobrado)}}

\* a market file of prices and areas only, one of the areas negative
NumericCols == {"preco", "area"}
NumericRows ==
  {[EmptyRow EXCEPT !.preco = Num(p), !.area = Num(1)] : p \in {1, 2, 4}}
  \cup {[EmptyRow EXCEPT !.preco = Num(2), !.area = Num(-1)]}

\* a market file without an area column
NoAreaCols == {"preco", "tipo_imovel"}
NoAreaRows == {[EmptyRow EXCEPT !.preco = Num(2), !.tipo_imovel = Str(s_casa)]}

\* the auction file create_sample_data writes (main.py:229-241, 261-262): a
\* preco column, no preco_inicial or preco_atual, and preco_m2 filled in
SampleCols == {"preco", "area", "preco_m2"}
SampleRows ==
  {[EmptyRow EXCEPT !.preco = Num(p), !.area = Num(1), !.preco_m2 = Num(p)] : p \in {2, 4}}

\* the auction files; the last is the empty JSON list that save_data writes
\* when nothing was collected: a frame without columns
LeilaoFiles ==
  {file_frame(LeilaoCols, rows) : rows \in SeqsUpTo(LeilaoRows, MaxRows)}
  \cup {file_frame(InicialCols, rows) : rows \in SeqsUpTo(InicialRows, MaxRows)}
  \cup {file_frame(SampleCols, rows) : rows \in SeqsUpTo(SampleRows, MaxPairRows)}
  \cup {file_frame({}, <<>>)}

TradicionalFiles ==
  {file_frame(VivaRealCols, rows) : rows \in SeqsUpTo(VivaRealRows, MaxRows)}
  \cup {file_frame(PlainCols, rows) : rows \in SeqsUpTo(PlainRows, MaxRows)}
  \cup {file_frame(NumericCols, rows) : rows \in SeqsUpTo(NumericRows, MaxPriceRows)}
  \cup {file_frame(NoAreaCols, rows) : rows \in SeqsUpTo(NoAreaRows, MaxRows)}

\* the files of an analysis of both sources (main.py:139-142): auction
\* records with an area and an initial price, and market files of prices and
\* areas or without an area column
PairLeilaoRows ==
  {r \in LeilaoRows : r.area = Num(2) /\ r.preco_inicial = Num(2)}
  \cup {[EmptyRow EXCEPT !.preco_inicial = Num(2), !.preco_atual = Num(6), !.area = Num(2),
                         !.tipo_imovel = Str(s_casa)]}
PairLeilaoFiles ==
  {file_frame(LeilaoCols, rows) : rows \in SeqsUpTo(PairLeilaoRows, MaxPairRows)}
PairTradicionalFiles ==
  {file_frame(NumericCols, rows) :
     rows \in SeqsUpTo({r \in NumericRows : r.area = Num(1) /\ r.preco # Num(1)},
                       MaxPairRows)}
  \cup {file_frame(NoAreaCols, rows) : rows \in [1..1 -> NoAreaRows]}

\* ---------------------------------------------------------------- analyzer
\* data_analyzer.py:53 / :65  df['fonte'] = ...
with_fonte(df, fonte) ==
  Frame(df.columns \cup {"fonte"},
        [i \in DOMAIN df.rows |-> [df.rows[i] EXCEPT !.fonte = fonte]])

NoObservation ==
  [inp_leiloes |-> None, inp_tradicional |-> None,
   pre_leiloes |-> None, pre_tradicional |-> None,
   n_leiloes |-> 0, n_tradicional |-> 0, error |-> ""]

\* data_analyzer.py:29-33  ImovelAnalyzer.__init__
AnalyzerInit ==
  /\ df_leiloes = None
  /\ df_tradicional = None
  /\ df_combined = None
  /\ stats = None
  /\ n_clean = 0
  /\ last = NoObservation

\* data_analyzer.py:35-69  a file argument of None is a file not given or not found
load_data(leiloes_file, tradicional_file) ==
  /\ df_leiloes' = IF leiloes_file # None
                   THEN Some(with_fonte(leiloes_file[1], "leilao")) ELSE df_leiloes
  /\ df_tradicional' = IF tradicional_file # None
                       THEN Some(with_fonte(tradicional_file[1], "tradicional"))
                       ELSE df_tradicional
  /\ UNCHANGED <<df_combined, stats, n_clean, last>>

\* the rows of b laid over the rows of a that have the same index
concat_overlapping(a, b) ==
  Frame(a.columns \cup b.columns,
        [i \in 1..(IF Len(a.rows) > Len(b.rows) THEN Len(a.rows) ELSE Len(b.rows)) |->
           IF i <= Len(b.rows) THEN b.rows[i] ELSE a.rows[i]])

\* pd.concat(datasets, ignore_index=True, sort=False)
concat(a, b) ==
  Frame(a.columns \cup b.columns,
        [i \in 1..(Len(a.rows) + Len(b.rows)) |->
           [(IF i <= Len(a.rows) THEN a.rows[i] ELSE b.rows[i - Len(a.rows)])
              EXCEPT !.idx = i - 1]])

\* data_analyzer.py:127-139  the value of self.df_combined afterwards
combine_datasets(l, t, old) ==
  IF l # None /\ t # None THEN Some(concat(l[1], t[1]))
  ELSE IF l # None THEN Some(concat(l[1], Frame({}, <<>>)))
  ELSE IF t # None THEN Some(concat(t[1], Frame({}, <<>>)))
  ELSE old

\* data_analyzer.py:71-88  every exception is caught and logged: the first
\* frame that raises ends the call, and what was assigned before it stays
clean_data ==
  /\ n_clean < MaxPasses
  /\ LET el == IF df_leiloes = None THEN "" ELSE clean_raises(df_leiloes[1], "leilao")
         et == IF df_tradicional = None THEN ""
               ELSE clean_raises(df_tradicional[1], "tradicional")
         l == IF df_leiloes = None \/ el # "" THEN df_leiloes
              ELSE Some(clean_dataframe(df_leiloes[1], "leilao"))
         t == IF df_tradicional = None \/ el # "" \/ et # "" THEN df_tradicional
              ELSE Some(clean_dataframe(df_tradicional[1], "tradicional"))
     IN /\ df_leiloes' = l
        /\ df_tradicional' = t
        /\ df_combined' = IF el # "" \/ et # "" THEN df_combined
                          ELSE combine_datasets(l, t, df_combined)
        /\ last' = [inp_leiloes |-> df_leiloes,
                    inp_tradicional |-> df_tradicional,
                    pre_leiloes |-> IF df_leiloes = None \/ el # "" THEN None
                                    ELSE Some(pre_rejection(df_leiloes[1], "leilao")),
                    pre_tradicional |-> IF df_tradicional = None \/ el # "" \/ et # "" THEN None
                                        ELSE Some(pre_rejection(df_tradicional[1], "tradicional")),
                    n_leiloes |-> IF df_leiloes = None \/ el # "" THEN last.n_leiloes
                                  ELSE last.n_leiloes + 1,
                    n_tradicional |-> IF df_tradicional = None \/ el # "" \/ et # ""
                                      THEN last.n_tradicional
                                      ELSE last.n_tradicional + 1,
                    error |-> IF el # "" THEN el ELSE et]
  /\ n_clean' = n_clean + 1
  /\ UNCHANGED stats

\* data_analyzer.py:141-182  returns None without a combined frame, and when a
\* column it reads is missing (the KeyError is caught)
generate_statistics ==
  /\ stats' = IF df_combined = None THEN None
              ELSE IF df_combined[1].rows # <<>>
                      /\ {"preco", "preco_m2", "area"} \ df_combined[1].columns # {}
              THEN None
              ELSE Some(statistics(df_combined[1]))
  /\ UNCHANGED <<df_leiloes, df_tradicional, df_combined, n_clean, last>>

\* ---------------------------------------------------------------- harvester
\* A link of an index page: imovel says whether the href contains '/imovel/',
\* id names the href string.  The hrefs 2k-1 and 2k are '/imovel/k' and
\* '/imovel/k?page=2': the same path, with and without a pagination query.
Hrefs == {[imovel |-> TRUE, id |-> n] : n \in 1..MaxUrl} \cup {[imovel |-> FALSE, id |-> 1]}

\* what a request can come to: scraper.get raises, raise_for_status raises,
\* or a document is returned
Outcomes == {"ok", "http_error", "connection_error"}

\* urljoin(self.base_url, href): the query of the href stays in the URL
urljoin(base, href) == [base |-> base, id |-> href.id]

in_list(x, xs) == \E k \in DOMAIN xs : xs[k] = x

\* leilao_scraper.py:78-83 / vivareal_scraper.py:81-86  the links of one page
RECURSIVE add_links(_, _, _)
add_links(urls, links, base) ==
  IF links = <<>> THEN urls
  ELSE LET full == urljoin(base, Head(links))
       IN add_links(IF Head(links).imovel /\ ~in_list(full, urls)
                    THEN Append(urls, full) ELSE urls,
                    Tail(links), base)

\* the list left uncut
truncate_missing(urls, max_imoveis) == urls

\* leilao_scraper.py:179-180 / vivareal_scraper.py:257-258  urls[:max_imoveis]
\* a negative bound of a slice counts from the end of the list
truncate(urls, max_imoveis) ==
  IF Len(urls) > max_imoveis
  THEN IF max_imoveis >= 0 THEN SubSeq(urls, 1, max_imoveis)
       ELSE SubSeq(urls, 1, IF Len(urls) + max_imoveis > 0
                            THEN Len(urls) + max_imoveis ELSE 0)
  ELSE urls

\* extraction without response.raise_for_status(): an error page is parsed
extract_without_status_check(url, outcome) ==
  IF outcome \in {"ok", "http_error"} THEN Some([url |-> url]) ELSE None

\* leilao_scraper.py:105-130 / vivareal_scraper.py:108-142  the record, or
\* None when the request or the extraction raised
extract_imovel_data(url, outcome) ==
  IF outcome = "ok" THEN Some([url |-> url]) ELSE None

\* the orders list(set(all_urls)) can come out in
set_orders(xs) ==
  LET S == {xs[k] : k \in DOMAIN xs}
  IN {p \in [1..Cardinality(S) -> S] : \A a, b \in DOMAIN p : a # b => p[a] # p[b]}

\* no request was made yet
NoRequest == [kind |-> "none", search |-> 0, id |-> 0, outcome |-> "ok"]

\* scraper.get(url) of index page `page` of search `search`, and of listing URL `url`
index_request(search, page, outcome) ==
  [kind |-> "index", search |-> search, id |-> page, outcome |-> outcome]
listing_request(url, outcome) ==
  [kind |-> "listing", search |-> 0, id |-> url.id, outcome |-> outcome]

\* leilao_scraper.py:51 / vivareal_scraper.py:51  a harvester object as constructed
HarvesterNew(source) ==
  /\ h_pc = "new"
  /\ h_source = source
  /\ h_cap = 0
  /\ h_page = 1
  /\ h_search = 1
  /\ h_urls = <<>>
  /\ h_all = <<>>
  /\ h_i = 1
  /\ h_data = <<>>
  /\ h_log = <<>>
  /\ h_ok = <<>>
  /\ h_found = 0
  /\ h_saved = None
  /\ h_last = NoRequest
  /\ h_slept = FALSE
  /\ h_dry = FALSE
  /\ h_twin = <<>>

\* leilao_scraper.py:165-176 / vivareal_scraper.py:223-247  a run starts; the
\* program builds a new harvester object for every run (main.py:65-70, 102-112)
scrape(max_imoveis) ==
  /\ h_pc = "new"
  /\ h_pc' = "index"
  /\ h_cap' = max_imoveis
  /\ h_page' = 1
  /\ h_search' = 1
  /\ h_urls' = <<>>
  /\ h_all' = <<>>
  /\ h_i' = 1
  /\ h_log' = <<>>
  /\ h_ok' = <<>>
  /\ h_found' = 0
  /\ h_dry' = FALSE
  /\ h_twin' = <<>>
  /\ UNCHANGED <<h_source, h_data, h_saved, h_last, h_slept>>

\* leilao_scraper.py:65-90 / vivareal_scraper.py:67-93  one index page: a
\* failed request is logged and the loop goes on, past the time.sleep that
\* ends the try block
index_page(outcome, links) ==
  /\ h_pc = "index"
  /\ h_page <= MaxPages
  /\ h_urls' = IF outcome = "ok" THEN add_links(h_urls, links, h_source) ELSE h_urls
  /\ h_page' = h_page + 1
  /\ h_last' = index_request(h_search, h_page, outcome)
  /\ h_slept' = (outcome = "ok")
  /\ h_dry' = (h_dry \/ (outcome = "ok" /\ add_links(h_urls, links, h_source) = h_urls))
  /\ UNCHANGED <<h_pc, h_source, h_cap, h_search, h_all, h_i, h_data, h_log, h_ok,
                 h_found, h_saved, h_twin>>

\* leilao_scraper.py:92-93, 176-180  get_imoveis_urls returns, the list is cut
leilao_urls_done ==
  /\ h_pc = "index"
  /\ h_source = "leilao"
  /\ h_page > MaxPages
  /\ h_all' = truncate(h_urls, h_cap)
  /\ h_twin' = truncate(h_urls, h_cap)
  /\ h_found' = Len(h_urls)
  /\ h_i' = 1
  /\ h_pc' = "extract"
  /\ UNCHANGED <<h_source, h_cap, h_page, h_search, h_urls, h_data, h_log, h_ok,
                 h_saved, h_last, h_slept, h_dry>>

\* vivareal_scraper.py:95-96, 247-251  search_imoveis returns, the next search starts
vivareal_search_done ==
  /\ h_pc = "index"
  /\ h_source = "vivareal"
  /\ h_page > MaxPages
  /\ h_search < MaxSearches
  /\ h_all' = h_all \o h_urls
  /\ h_search' = h_search + 1
  /\ h_page' = 1
  /\ h_urls' = <<>>
  /\ h_slept' = TRUE
  /\ h_dry' = FALSE
  /\ UNCHANGED <<h_pc, h_source, h_cap, h_i, h_data, h_log, h_ok, h_found,
                 h_saved, h_last, h_twin>>

\* vivareal_scraper.py:247-258  the last search returns; duplicates are
\* removed through a set, whose order is any, and the list is cut
vivareal_urls_done ==
  /\ h_pc = "index"
  /\ h_source = "vivareal"
  /\ h_page > MaxPages
  /\ h_search = MaxSearches
  /\ \E order \in set_orders(h_all \o h_urls) :
       /\ h_all' = truncate(order, h_cap)
       /\ h_found' = Len(order)
  /\ \E order \in set_orders(h_all \o h_urls) : h_twin' = truncate(order, h_cap)
  /\ h_slept' = TRUE
  /\ h_i' = 1
  /\ h_pc' = "extract"
  /\ UNCHANGED <<h_source, h_cap, h_page, h_search, h_urls, h_data, h_log, h_ok,
                 h_saved, h_last, h_dry>>

\* leilao_scraper.py:183-191 / vivareal_scraper.py:261-269  one listing URL
extract_step(outcome) ==
  /\ h_pc = "extract"
  /\ h_i <= Len(h_all)
  /\ LET data == extract_imovel_data(h_all[h_i], outcome)
     IN h_data' = IF data # None THEN Append(h_data, data[1]) ELSE h_data
  /\ h_log' = Append(h_log, h_all[h_i])
  /\ h_ok' = IF outcome = "ok" THEN Append(h_ok, h_all[h_i]) ELSE h_ok
  /\ h_i' = h_i + 1
  /\ h_last' = listing_request(h_all[h_i], outcome)
  /\ h_slept' = TRUE
  /\ UNCHANGED <<h_pc, h_source, h_cap, h_page, h_search, h_urls, h_all, h_found,
                 h_saved, h_dry, h_twin>>

\* leilao_scraper.py:193 / vivareal_scraper.py:271  the loop is over
scrape_done ==
  /\ h_pc = "extract"
  /\ h_i > Len(h_all)
  /\ h_pc' = "done"
  /\ UNCHANGED <<h_source, h_cap, h_page, h_search, h_urls, h_all, h_i, h_data, h_log, h_ok,
                 h_found, h_saved, h_last, h_slept, h_dry, h_twin>>

\* leilao_scraper.py:195-218 / vivareal_scraper.py:273-296, called at
\* main.py:74 / main.py:116 when the run has returned
save_data ==
  /\ h_pc = "done"
  /\ h_saved' = Some(h_data)
  /\ h_pc' = "saved"
  /\ UNCHANGED <<h_source, h_cap, h_page, h_search, h_urls, h_all, h_i, h_data, h_log, h_ok,
                 h_found, h_last, h_slept, h_dry, h_twin>>

\* main.py:340-341  KeyboardInterrupt while a run is under way: no except
\* Exception clause on the way catches it (leilao_scraper.py:88, 128,
\* main.py:79), main logs it and the process ends; the harvester object, a
\* local of run_leilao_scraping / run_vivareal_scraping, is gone with its data
interrupt ==
  /\ h_pc \in {"index", "extract"}
  /\ h_pc' = "interrupted"
  /\ UNCHANGED <<h_source, h_cap, h_page, h_search, h_urls, h_all, h_i, h_data, h_log, h_ok,
                 h_found, h_saved, h_last, h_slept, h_dry, h_twin>>

\* ---------------------------------------------------------------- extractor
Digits == {"0", "1", "2", "3", "4", "5", "6", "7", "8", "9"}

digit(c) ==
  CASE c = "0" -> 0 [] c = "1" -> 1 [] c = "2" -> 2 [] c = "3" -> 3 [] c = "4" -> 4
    [] c = "5" -> 5 [] c = "6" -> 6 [] c = "7" -> 7 [] c = "8" -> 8 [] c = "9" -> 9

\* int() of a string of digits
RECURSIVE int(_)
int(s) == IF s = <<>> THEN 0 ELSE 10 * int(SubSeq(s, 1, Len(s) - 1)) + digit(s[Len(s)])

\* a float as the fraction num / den in lowest decimal terms
RECURSIVE decimal(_, _)
decimal(num, den) ==
  IF den > 1 /\ num % 10 = 0 THEN decimal(num \div 10, den \div 10)
  ELSE [num |-> num, den |-> den]

\* float() of a string of digits and points: None stands for its ValueError
float(s) ==
  LET points == {k \in DOMAIN s : s[k] = "."}
      digits == SelectSeq(s, LAMBDA c: c \in Digits)
  IN IF Cardinality(points) > 1 \/ digits = <<>> THEN None
     ELSE LET after == IF points = {} THEN 0 ELSE Len(s) - (CHOOSE k \in points : TRUE)
          IN Some(decimal(int(digits), 10 ^ after))

\* .replace(',', '.')
comma_to_point(s) == [k \in DOMAIN s |-> IF s[k] = "," THEN "." ELSE s[k]]

\* leilao_scraper.py:147-149 / vivareal_scraper.py:164-166  the price of an
\* element's text; the ValueError of float() ends in the bare except
price_of_text(text) ==
  LET price_clean == comma_to_point(SelectSeq(text, LAMBDA c: c \in Digits \cup {",", "."}))
  IN IF price_clean # <<>> THEN float(price_clean) ELSE None

\* the last position of the run of digits that starts at position k
RECURSIVE run_end(_, _)
run_end(s, k) == IF k < Len(s) /\ s[k + 1] \in Digits THEN run_end(s, k + 1) ELSE k

\* the first position from k on that holds no whitespace
RECURSIVE skip_space(_, _)
skip_space(s, k) == IF k <= Len(s) /\ s[k] = " " THEN skip_space(s, k + 1) ELSE k

\* r'(\d+(?:,\d+)?)\s*m' matched at position k: the last position of group 1,
\* 0 when there is no match at k
area_match_at(s, k) ==
  IF s[k] \notin Digits THEN 0
  ELSE LET e1 == run_end(s, k)
           grouped == e1 + 2 <= Len(s) /\ s[e1 + 1] = "," /\ s[e1 + 2] \in Digits
           e2 == IF grouped THEN run_end(s, e1 + 2) ELSE e1
           then_m(e) == LET j == skip_space(s, e + 1) IN j <= Len(s) /\ s[j] = "m"
       IN IF grouped /\ then_m(e2) THEN e2 ELSE IF then_m(e1) THEN e1 ELSE 0

\* leilao_scraper.py:159-161 / vivareal_scraper.py:191-193  re.search finds the
\* leftmost match; the area is float() of its group 1
area_of_text(text) ==
  LET starts == {k \in DOMAIN text : area_match_at(text, k) # 0}
  IN IF starts = {} THEN None
     ELSE LET k == CHOOSE a \in starts : \A b \in starts : a <= b
          IN float(comma_to_point(SubSeq(text, k, area_match_at(text, k))))

\* leilao_scraper.py:132-138 / vivareal_scraper.py:144-150  a Tag is truthy
\* whatever its content, so an element without text gives ''
safe_extract(element) == IF element # None THEN Some(element[1]) ELSE None

\* truthiness of what safe_extract returns: None and '' are falsy
truthy_text(t) == t # None /\ t[1] # <<>>

\* leilao_scraper.py:140-151  one selector
leilao_extract_price(element) ==
  LET price_text == safe_extract(element)
  IN IF truthy_text(price_text) THEN price_of_text(price_text[1]) ELSE None

\* leilao_scraper.py:153-163  area_text = _safe_extract('.area') or _safe_extract('.metragem')
leilao_extract_area(chain) ==
  LET first == IF Len(chain) >= 1 THEN safe_extract(chain[1]) ELSE None
      second == IF Len(chain) >= 2 THEN safe_extract(chain[2]) ELSE None
      area_text == IF truthy_text(first) THEN first ELSE second
  IN IF truthy_text(area_text) THEN area_of_text(area_text[1]) ELSE None

\* only the first selector of the chain is tried
vivareal_price_first_only(chain) ==
  IF chain = <<>> \/ Head(chain) = None THEN None ELSE price_of_text(Head(chain)[1])

\* vivareal_scraper.py:152-168  the loop returns at the first selector that
\* selects an element
RECURSIVE vivareal_extract_price(_)
vivareal_extract_price(chain) ==
  IF chain = <<>> THEN None
  ELSE IF Head(chain) # None THEN price_of_text(Head(chain)[1])
  ELSE vivareal_extract_price(Tail(chain))

\* vivareal_scraper.py:182-195  the loop returns at the first selector whose
\* text holds an area
RECURSIVE vivareal_extract_area(_)
vivareal_extract_area(chain) ==
  IF chain = <<>> THEN None
  ELSE LET area_text == safe_extract(Head(chain))
       IN IF truthy_text(area_text) /\ area_of_text(area_text[1]) # None
          THEN area_of_text(area_text[1])
          ELSE vivareal_extract_area(Tail(chain))

\* vivareal_scraper.py:197-206  int() of the first run of digits of the text
extract_number(element) ==
  LET text == safe_extract(element)
      starts == IF text = None THEN {} ELSE {k \in DOMAIN text[1] : text[1][k] \in Digits}
  IN IF ~truthy_text(text) \/ starts = {} THEN None
     ELSE LET k == CHOOSE a \in starts : \A b \in starts : a <= b
          IN Some(int(SubSeq(text[1], k, run_end(text[1], k))))

\* vivareal_scraper.py:208-221  the non-empty texts of the selected elements,
\* None when there is none
extract_features(elements) ==
  LET features == SelectSeq([k \in DOMAIN elements |-> elements[k][1]],
                            LAMBDA feature_text: feature_text # <<>>)
  IN IF features # <<>> THEN Some(features) ELSE None

\* the values of a record: a str, a float or int, a list of str
StrValue(text) == [t |-> "str", s |-> text, num |-> 0, den |-> 1, items |-> <<>>]
FloatValue(f) == [t |-> "num", s |-> <<>>, num |-> f.num, den |-> f.den, items |-> <<>>]
IntValue(n) == [t |-> "num", s |-> <<>>, num |-> n, den |-> 1, items |-> <<>>]
ListValue(xs) == [t |-> "list", s |-> <<>>, num |-> 0, den |-> 1, items |-> xs]

\* None stays None, a result becomes a value of the record
value_of(result, type) ==
  IF result = None THEN None
  ELSE Some(CASE type = "str" -> StrValue(result[1])
              [] type = "float" -> FloatValue(result[1])
              [] type = "int" -> IntValue(result[1])
              [] type = "list" -> ListValue(result[1]))

\* leilao_scraper.py:112-124 / vivareal_scraper.py:115-132  one key of the
\* record extract_imovel_data builds
extract_key(field, doc) ==
  CASE field = [source |-> "leilao", key |-> "titulo"] ->
         value_of(safe_extract(doc[1]), "str")
    [] field = [source |-> "leilao", key |-> "preco_inicial"] ->
         value_of(leilao_extract_price(doc[1]), "float")
    [] field = [source |-> "leilao", key |-> "area"] ->
         value_of(leilao_extract_area(doc), "float")
    [] field = [source |-> "vivareal", key |-> "titulo"] ->
         value_of(safe_extract(doc[1]), "str")
    [] field = [source |-> "vivareal", key |-> "preco"] ->
         value_of(vivareal_extract_price(doc), "float")
    [] field = [source |-> "vivareal", key |-> "area"] ->
         value_of(vivareal_extract_area(doc), "float")
    [] field = [source |-> "vivareal", key |-> "quartos"] ->
         value_of(extract_number(doc[1]), "int")
    [] field = [source |-> "vivareal", key |-> "caracteristicas"] ->
         value_of(extract_features(doc), "list")

\* texts of elements, as get_text(strip=True) returns them
t_empty == <<>>
t_price == <<"R", "$", "4">>
t_zero == <<"0">>
t_words == <<"s", "o", "b">>
t_points == <<"4", ".", "0", ",", "5">>
t_area == <<"2", "m">>
t_area_decimal == <<"2", ",", "5", " ", "m">>
t_digits == <<"2">>
Texts == {t_empty, t_price, t_zero, t_words, t_points, t_area, t_area_decimal, t_digits}

\* what one selector selects: no element, or an element with a text
Elements == {None} \cup {Some(text) : text \in Texts}

ChainKeys ==
  {[source |-> "leilao", key |-> "area"], [source |-> "vivareal", key |-> "preco"],
   [source |-> "vivareal", key |-> "area"]}
SingleKeys ==
  {[source |-> "leilao", key |-> "titulo"], [source |-> "leilao", key |-> "preco_inicial"],
   [source |-> "vivareal", key |-> "titulo"], [source |-> "vivareal", key |-> "quartos"]}
ListKeys == {[source |-> "vivareal", key |-> "caracteristicas"]}

\* leilao_scraper.py:156, vivareal_scraper.py:156, 185  the selectors of a chain
chain_length(field) ==
  IF field.source = "leilao" THEN 2 ELSE IF field.key = "preco" THEN 4 ELSE 3

\* the pages: for a chain, the elements its first MaxChain selectors select
\* (the later selectors select nothing); for select(), the elements selected
Docs(field) ==
  IF field \in ChainKeys
  THEN [1..(IF MaxChain < chain_length(field) THEN MaxChain ELSE chain_length(field))
          -> Elements]
  ELSE IF field \in SingleKeys THEN [1..1 -> Elements]
  ELSE UNION {[1..n -> Elements \ {None}] : n \in 0..MaxChain}

\* no page is being parsed
ExtractorIdle ==
  /\ x_pc = "idle"
  /\ x_field = [source |-> "", key |-> ""]
  /\ x_doc = <<>>
  /\ x_value = None

\* BeautifulSoup(response.content, 'html.parser') handed to the extraction of one key
ExtractorInit ==
  /\ x_pc = "doc"
  /\ x_field \in ChainKeys \cup SingleKeys \cup ListKeys
  /\ x_doc \in Docs(x_field)
  /\ x_value = None

\* the key is filled in
extract_field ==
  /\ x_pc = "doc"
  /\ x_value' = extract_key(x_field, x_doc)
  /\ x_pc' = "done"
  /\ UNCHANGED <<x_field, x_doc>>

\* ---------------------------------------------------------------- specification
Init == AnalyzerInit /\ HarvesterNew("leilao") /\ ExtractorIdle

Load ==
  /\ df_leiloes = None
  /\ df_tradicional = None
  /\ \/ \E f \in LeilaoFiles : load_data(Some(f), None)
     \/ \E f \in TradicionalFiles : load_data(None, Some(f))
     \/ \E l \in PairLeilaoFiles, t \in PairTradicionalFiles : load_data(Some(l), Some(t))

Next ==
  \/ Load /\ UNCHANGED <<hvars, xvars>>
  \/ clean_data /\ UNCHANGED <<hvars, xvars>>
  \/ generate_statistics /\ UNCHANGED <<hvars, xvars>>

Spec == Init /\ [][Next]_vars

InitHarvest ==
  /\ AnalyzerInit
  /\ \E source \in {"leilao", "vivareal"} : HarvesterNew(source)
  /\ ExtractorIdle

NextHarvest ==
  \/ \E max_imoveis \in (-1)..MaxCap : scrape(max_imoveis) /\ UNCHANGED <<avars, xvars>>
  \/ \E outcome \in Outcomes \ {"ok"} : index_page(outcome, <<>>) /\ UNCHANGED <<avars, xvars>>
  \/ \E links \in SeqsUpTo(Hrefs, MaxLinks) : index_page("ok", links) /\ UNCHANGED <<avars, xvars>>
  \/ leilao_urls_done /\ UNCHANGED <<avars, xvars>>
  \/ vivareal_search_done /\ UNCHANGED <<avars, xvars>>
  \/ vivareal_urls_done /\ UNCHANGED <<avars, xvars>>
  \/ \E outcome \in Outcomes : extract_step(outcome) /\ UNCHANGED <<avars, xvars>>
  \/ scrape_done /\ UNCHANGED <<avars, xvars>>
  \/ save_data /\ UNCHANGED <<avars, xvars>>
  \/ interrupt /\ UNCHANGED <<avars, xvars>>

SpecHarvest == InitHarvest /\ [][NextHarvest]_vars

InitExtract == AnalyzerInit /\ HarvesterNew("leilao") /\ ExtractorInit

NextExtract == extract_field /\ UNCHANGED <<avars, hvars>>

SpecExtract == InitExtract /\ [][NextExtract]_vars

\* ---------------------------------------------------------------- properties
Fontes == {"leilao", "tradicional"}
frame_of(f) == IF f = "leilao" THEN df_leiloes ELSE df_tradicional
inp_of(f) == IF f = "leilao" THEN last.inp_leiloes ELSE last.inp_tradicional
pre_of(f) == IF f = "leilao" THEN last.pre_leiloes ELSE last.pre_tradicional
passes_of(f) == IF f = "leilao" THEN last.n_leiloes ELSE last.n_tradicional

\* the last clean_data call cleaned the frame of source f and assigned the result
cleaned(f) == pre_of(f) # None
out_rows(f) == frame_of(f)[1].rows
pre_rows(f) == pre_of(f)[1].rows
inp_rows(f) == inp_of(f)[1].rows

Range(xs) == {xs[k] : k \in DOMAIN xs}
idx_seq(rows) == [k \in DOMAIN rows |-> rows[k].idx]
has_m2(rows) == {k \in DOMAIN rows : ~isna(rows[k].preco_m2)}

\* C1: the cleaned frame holds no listing with an area <= 0 and a
\* price-per-area that is not missing.
C1_NoPrecoM2WithoutPositiveArea ==
  \A f \in Fontes :
    cleaned(f) =>
      \A r \in Range(out_rows(f)) :
        (~isna(r.area) /\ r.area.v <= 0) => isna(r.preco_m2)

\* C2: for the auction source, the canonical price of every listing is its
\* preco_atual when it has one, and its preco_inicial otherwise.
C2_PrecoChosenPerListing ==
  cleaned("leilao") =>
    \A r \in Range(pre_rows("leilao")) :
      r.preco = IF ~isna(to_numeric(r.preco_atual)) THEN to_numeric(r.preco_atual)
                ELSE to_numeric(r.preco_inicial)

\* The k-th smallest price-per-area of the rows, by counting (no sorting).
m2_rank(rows, k) ==
  CHOOSE x \in {rows[j].preco_m2.v : j \in has_m2(rows)} :
    /\ Cardinality({j \in has_m2(rows) : rows[j].preco_m2.v < x}) < k
    /\ k <= Cardinality({j \in has_m2(rows) : rows[j].preco_m2.v <= x})

\* 100 times the 1st and the 99th percentile (linear interpolation) of 1 to
\* 100 values: the 1st lies (n-1)/100 of the way from the smallest to the
\* second smallest, the 99th (n-1)/100 of the way from the largest down to the
\* second largest.
percentile_1(rows) ==
  LET n == Cardinality(has_m2(rows))
  IN 100 * m2_rank(rows, 1)
       + (m2_rank(rows, IF n > 1 THEN 2 ELSE 1) - m2_rank(rows, 1)) * (n - 1)
percentile_99(rows) ==
  LET n == Cardinality(has_m2(rows))
  IN 100 * m2_rank(rows, n)
       - (m2_rank(rows, n) - m2_rank(rows, IF n > 1 THEN n - 1 ELSE 1)) * (n - 1)

within_percentiles(r, rows) ==
  /\ ~isna(r.preco_m2)
  /\ 100 * r.preco_m2.v >= percentile_1(rows)
  /\ 100 * r.preco_m2.v <= percentile_99(rows)

\* C3: the cleaned frame holds exactly the listings, in their order, whose
\* price-per-area lies within the 1st and 99th percentile of the frame's own
\* price-per-area values before rejection.
C3_KeepsExactlyWithinPercentiles ==
  \A f \in Fontes :
    cleaned(f) =>
      /\ idx_seq(out_rows(f)) =
           idx_seq(SelectSeq(pre_rows(f), LAMBDA r: within_percentiles(r, pre_rows(f))))
      /\ \A r \in Range(out_rows(f)) : within_percentiles(r, pre_rows(f))

\* C3 witness: a pass that dropped a listing below the 1st percentile and one
\* above the 99th and kept another.
C3_Witness ==
  \E f \in Fontes :
    /\ cleaned(f)
    /\ out_rows(f) # <<>>
    /\ \E a, b \in has_m2(pre_rows(f)) :
         /\ 100 * pre_rows(f)[a].preco_m2.v < percentile_1(pre_rows(f))
         /\ 100 * pre_rows(f)[b].preco_m2.v > percentile_99(pre_rows(f))

\* a row whose price-per-area is strictly below, or strictly above, that of
\* every other row of a frame of two rows or more
lone_extreme(rows, k) ==
  /\ Len(rows) >= 2
  /\ \/ \A j \in DOMAIN rows \ {k} : rows[k].preco_m2.v < rows[j].preco_m2.v
     \/ \A j \in DOMAIN rows \ {k} : rows[k].preco_m2.v > rows[j].preco_m2.v

\* C4 as claimed: cleaning an already cleaned frame again removes no listing.
C4_SecondPassRemovesNothing ==
  \A f \in Fontes :
    (cleaned(f) /\ passes_of(f) >= 2) => Len(out_rows(f)) = Len(inp_rows(f))

\* C4 as amended: cleaning an already cleaned frame (of up to 100 listings)
\* again recomputes the percentiles from it and removes exactly the listings
\* whose price-per-area is strictly below or strictly above all the others.
C4_SecondPassRemovesLoneExtremes ==
  \A f \in Fontes :
    (cleaned(f) /\ passes_of(f) >= 2) =>
      idx_seq(out_rows(f)) =
        idx_seq(SelectSeq(inp_rows(f),
                          LAMBDA r: \E k \in DOMAIN inp_rows(f) :
                                      /\ inp_rows(f)[k] = r
                                      /\ ~lone_extreme(inp_rows(f), k)))

\* C4 witness: a second pass that removed a listing the first pass had kept.
C4_Witness ==
  \E f \in Fontes :
    /\ cleaned(f)
    /\ passes_of(f) >= 2
    /\ out_rows(f) # <<>>
    /\ Len(out_rows(f)) < Len(inp_rows(f))

\* C5: a listing with a usable price and a missing or non-positive area stays
\* in the cleaned frame, without a price-per-area.
C5_PricedListingWithoutAreaIsKept ==
  \A f \in Fontes :
    cleaned(f) =>
      \A r \in Range(pre_rows(f)) :
        (~isna(r.preco) /\ (isna(r.area) \/ r.area.v <= 0)) =>
          \E o \in Range(out_rows(f)) : o.idx = r.idx /\ isna(o.preco_m2)

\* C6: every listing with a price and an area > 0 gets, from cleaning, the
\* price-per-area price / area, also when only some listings of the input
\* carried one.
C6_PrecoM2PerListing ==
  \A f \in Fontes :
    cleaned(f) =>
      \A r \in Range(pre_rows(f)) :
        (~isna(r.preco) /\ ~isna(r.area) /\ r.area.v > 0) =>
          r.preco_m2 = divide(r.preco, r.area)

CanonicalTipos == {tipo_table[key] : key \in DOMAIN tipo_table} \cup {s_unknown}

\* C7: after cleaning, every listing's property type is one of the canonical
\* values, unknown for what the table does not recognise, and no listing is
\* dropped for its type.
C7_TipoIsCanonical ==
  \A f \in Fontes :
    (cleaned(f) /\ "tipo_imovel" \in frame_of(f)[1].columns) =>
      /\ \A o \in Range(out_rows(f)) : ~o.tipo_imovel.isna /\ o.tipo_imovel.s \in CanonicalTipos
      /\ idx_seq(out_rows(f)) = idx_seq(reject_outliers(pre_of(f)[1]).rows)

\* the listings of a loaded frame with a usable price and a usable area after coercion
usable(df, f) ==
  LET c == coerce_numeric(standardize_preco(df, f))
  IN {k \in DOMAIN c.rows :
        /\ {"preco", "area"} \subseteq c.columns
        /\ ~isna(c.rows[k].preco)
        /\ ~isna(c.rows[k].area)}

\* C8: cleaning a source fails with InsufficientDataError exactly when none of
\* its listings has both a usable price and a usable area.
C8_InsufficientDataError ==
  \A f \in Fontes :
    (n_clean > 0 /\ inp_of(f) # None) =>
      ((usable(inp_of(f)[1], f) = {}) <=> (last.error = "InsufficientDataError"))

\* C9 as claimed: the listing URLs requested and the records collected by a
\* run on a new harvester never outnumber max_imoveis, whatever its value (a
\* cap below zero read as a cap of zero).
C9_CapRespected ==
  LET cap == IF h_cap > 0 THEN h_cap ELSE 0
  IN Len(h_log) <= cap /\ Len(h_data) <= cap

\* C9 as amended: with max_imoveis >= 0, the listing URLs requested and the
\* records collected by a run on a new harvester never outnumber max_imoveis.
C9_NonNegativeCapRespected ==
  h_cap >= 0 => (Len(h_log) <= h_cap /\ Len(h_data) <= h_cap)

\* C9 witness: a finished run that discovered more URLs than the cap and
\* collected as many records as the cap allows.
C9_Witness ==
  /\ h_pc = "done"
  /\ h_cap > 0
  /\ h_found > h_cap
  /\ Len(h_log) = h_cap
  /\ Len(h_data) = h_cap

\* C10: the URLs left after the cut are requested once each, in order,
\* whatever failed before, and the records are exactly those of the URLs
\* whose request and extraction succeeded.
C10_FailureDoesNotAbort ==
  /\ h_pc \in {"extract", "done"} =>
       /\ h_log = SubSeq(h_all, 1, h_i - 1)
       /\ \A a, b \in DOMAIN h_all : a # b => h_all[a] # h_all[b]
  /\ h_pc = "done" => h_log = h_all
  /\ h_data = [k \in DOMAIN h_ok |-> [url |-> h_ok[k]]]
  /\ \E keep \in SUBSET DOMAIN h_log :
       h_ok = SelectSeq(h_log, LAMBDA u: \E k \in keep : h_log[k] = u)

\* C10 witness: a finished run whose first URL failed and whose second URL
\* was still requested and collected.
C10_Witness ==
  /\ h_pc = "done"
  /\ Len(h_log) = 2
  /\ h_ok = <<h_log[2]>>
  /\ h_data = <<[url |-> h_log[2]]>>

RunOver == {"extract", "done", "saved", "interrupted"}

\* C11: a run interrupted after records were collected hands these records
\* to save_data.
C11_InterruptKeepsRecords ==
  (h_pc = "interrupted" /\ h_data # <<>>) => h_saved = Some(h_data)

\* C12: a request that follows another request of the harvester is made only
\* after time.sleep has run since that earlier request.
C12_DelayBeforeEachRequest ==
  [][(h_last.kind # "none" /\ h_last' # h_last) => h_slept]_vars

\* scheme, host and path of a URL, the pagination query left out
normalized(url) == [base |-> url.base, path |-> (url.id + 1) \div 2]

\* C13: the list the extraction loop walks holds no two URLs with the same
\* scheme, host and path.
C13_DedupOnNormalizedUrl ==
  h_pc \in RunOver =>
    \A a, b \in DOMAIN h_all :
      a # b => normalized(h_all[a]) # normalized(h_all[b])

\* C14: once a fetched page of a search added no URL, no further index page
\* of that search is requested.
C14_StopsAfterDryPage ==
  [][(h_dry /\ h_last' # h_last) => h_last'.kind # "index"]_vars

\* C15: the request that follows a request that failed with a connection
\* error is a request of the same URL.
C15_TransientFailureRetried ==
  [][(h_last.kind # "none" /\ h_last.outcome = "connection_error" /\ h_last' # h_last)
       => (/\ h_last'.kind = h_last.kind
           /\ h_last'.search = h_last.search
           /\ h_last'.id = h_last.id)]_vars

\* C19: a second run over the same index pages with the same cap walks the
\* same list of URLs, and so returns the same sequence of records.
C19_Deterministic == h_pc \in RunOver => h_all = h_twin

\* what one selector of a chain produces by itself from the element it selects
produces(field, element) ==
  IF element = None THEN None
  ELSE IF field.key = "preco" THEN value_of(price_of_text(element[1]), "float")
  ELSE value_of(area_of_text(element[1]), "float")

\* C16: when the first selector of a chain selects nothing, the key gets
\* what the rest of the chain gives, which is what the second selector
\* produces when that is a value; when no selector selects anything, the key
\* is None.
C16_SelectorFallback ==
  (x_pc = "done" /\ x_field \in ChainKeys) =>
    /\ (\A k \in DOMAIN x_doc : x_doc[k] = None) => x_value = None
    /\ x_doc[1] = None => x_value = extract_key(x_field, Tail(x_doc))
    /\ (x_doc[1] = None /\ produces(x_field, x_doc[2]) # None) =>
         x_value = produces(x_field, x_doc[2])

\* C16 witness: a page where the first selector selects nothing and the
\* value of the key comes from the second.
C16_Witness ==
  /\ x_pc = "done"
  /\ x_field \in ChainKeys
  /\ x_doc[1] = None
  /\ x_doc[2] # None
  /\ x_value # None
  /\ x_value = produces(x_field, x_doc[2])

\* C17: the key of a chain gets the value of the first selector, in chain
\* order, that produces one, and None when none does.
C17_FirstParsedValueWins ==
  (x_pc = "done" /\ x_field \in ChainKeys) =>
    LET parsed == {k \in DOMAIN x_doc : produces(x_field, x_doc[k]) # None}
    IN x_value = IF parsed = {} THEN None
                 ELSE produces(x_field, x_doc[CHOOSE a \in parsed : \A b \in parsed : a <= b])

\* C18: a key of the record is None or a non-empty value: never the empty
\* string, never an empty list or a list holding an empty string, and a
\* number only when a selected element has text.
C18_AbsentOrNonEmpty ==
  (x_pc = "done" /\ x_value # None) =>
    /\ x_value[1].t = "str" => x_value[1].s # <<>>
    /\ x_value[1].t = "list" =>
         /\ x_value[1].items # <<>>
         /\ \A k \in DOMAIN x_value[1].items : x_value[1].items[k] # <<>>
    /\ x_value[1].t = "num" =>
         \E k \in DOMAIN x_doc : x_doc[k] # None /\ x_doc[k][1] # <<>>

\* two rows agree on every column; the index is not a column
same_listing(a, b) == [a EXCEPT !.idx = 0] = [b EXCEPT !.idx = 0]

\* C20: after both sources were cleaned, the combined frame holds the M
\* auction listings followed by the N market listings, each equal to its
\* original on every column, fonte included, and the two frames are what
\* cleaning made of them.
C20_CombineIsConcatenation ==
  (cleaned("leilao") /\ cleaned("tradicional")) =>
    LET l == df_leiloes[1].rows
        t == df_tradicional[1].rows
        c == df_combined[1].rows
    IN /\ Len(c) = Len(l) + Len(t)
       /\ \A k \in DOMAIN l : same_listing(c[k], l[k]) /\ c[k].fonte = "leilao"
       /\ \A k \in DOMAIN t :
            same_listing(c[Len(l) + k], t[k]) /\ c[Len(l) + k].fonte = "tradicional"
       /\ df_leiloes = Some(clean_dataframe(last.inp_leiloes[1], "leilao"))
       /\ df_tradicional = Some(clean_dataframe(last.inp_tradicional[1], "tradicional"))

\* C20 witness: both cleaned frames hold listings, in different numbers, and
\* all of them are in the combined frame.
C20_Witness ==
  /\ cleaned("leilao")
  /\ cleaned("tradicional")
  /\ Len(df_leiloes[1].rows) >= 1
  /\ Len(df_tradicional[1].rows) > Len(df_leiloes[1].rows)
  /\ Len(df_combined[1].rows) = Len(df_leiloes[1].rows) + Len(df_tradicional[1].rows)

\* the listings of a source in the combined frame
combined_of(f) == {k \in DOMAIN df_combined[1].rows : df_combined[1].rows[k].fonte = f}

\* C21: the stats dict a generate_statistics call returns has a key for a
\* source exactly when the combined frame holds listings of it, and has the
\* comparison section exactly when it has both source keys.
C21_ComparisonIffTwoSources ==
  [][(stats' # stats /\ stats' # None) =>
       /\ (stats'[1].leilao # None) <=> (combined_of("leilao") # {})
       /\ (stats'[1].tradicional # None) <=> (combined_of("tradicional") # {})
       /\ (stats'[1].comparacao # None) <=>
            (stats'[1].leilao # None /\ stats'[1].tradicional # None)]_vars

\* C21 witness: both sources were loaded and cleaned, the market frame came
\* out empty, and the stats dict has the auction key and no comparison.
C21_Witness ==
  /\ stats # None
  /\ cleaned("leilao")
  /\ cleaned("tradicional")
  /\ df_tradicional[1].rows = <<>>
  /\ stats[1].leilao # None
  /\ stats[1].tradicional = None
  /\ stats[1].comparacao = None

\* the sum of the price-per-area values of the listings ks of the combined frame
RECURSIVE m2_total(_)
m2_total(ks) ==
  IF ks = {} THEN 0
  ELSE LET k == CHOOSE a \in ks : TRUE
       IN df_combined[1].rows[k].preco_m2.v + m2_total(ks \ {k})

\* the listings of a source in the combined frame that have a price-per-area
priced_of(f) == {k \in combined_of(f) : ~isna(df_combined[1].rows[k].preco_m2)}

\* C22: with both sources present and both means defined, the field
\* diferenca_preco_m2_medio of the dict a generate_statistics call returns is
\* (T - L) / T * 100, T and L the mean price-per-area of the market listings
\* and of the auction listings of the combined frame.
C22_DiferencaPrecoM2 ==
  [][(/\ stats' # stats
      /\ stats' # None
      /\ stats'[1].comparacao # None
      /\ priced_of("leilao") # {}
      /\ priced_of("tradicional") # {}
      /\ m2_total(priced_of("tradicional")) # 0) =>
       LET d == stats'[1].comparacao[1].diferenca_preco_m2_medio
           Tsum == m2_total(priced_of("tradicional"))
           Tn == Cardinality(priced_of("tradicional"))
           Lsum == m2_total(priced_of("leilao"))
           Ln == Cardinality(priced_of("leilao"))
       IN /\ d.den # 0
          /\ d.num * (Tsum * Ln) = d.den * 100 * (Tsum * Ln - Lsum * Tn)]_vars

\* C22 witness: auction listings with mean price-per-area 3, market listings
\* with mean 4 (the ratio of 3000 to 4000), and a reported difference of 25.
C22_Witness ==
  /\ stats # None
  /\ stats[1].comparacao # None
  /\ stats[1].leilao[1].preco_m2_medio.n > 0
  /\ stats[1].leilao[1].preco_m2_medio.sum = 3 * stats[1].leilao[1].preco_m2_medio.n
  /\ stats[1].tradicional[1].preco_m2_medio.sum = 4 * stats[1].tradicional[1].preco_m2_medio.n
  /\ stats[1].comparacao[1].diferenca_preco_m2_medio.den # 0
  /\ stats[1].comparacao[1].diferenca_preco_m2_medio.num =
       25 * stats[1].comparacao[1].diferenca_preco_m2_medio.den

\* C23: cleaning an auction frame that has a preco column and neither a
\* preco_atual nor a preco_inicial column leaves the price of every listing
\* as it was.
C23_PrecoColumnKept ==
  (/\ cleaned("leilao")
   /\ "preco" \in last.inp_leiloes[1].columns
   /\ {"preco_atual", "preco_inicial"} \cap last.inp_leiloes[1].columns = {}) =>
    \A k \in DOMAIN pre_rows("leilao") :
      pre_rows("leilao")[k].preco = to_numeric(inp_rows("leilao")[k].preco)

\* C24: when clean_data has returned on an analyzer with both sources
\* loaded, the combined frame is the concatenation of the analyzer's auction
\* frame and market frame as they now are.
C24_CombinedIsCurrent ==
  (last.inp_leiloes # None /\ last.inp_tradicional # None) =>
    df_combined = Some(concat(df_leiloes[1], df_tradicional[1]))

====
